---- MODULE Spec2Model ----
(***************************************************************************)
(* Model of whatsapp_chat_reader.py: the line parser split_chat_line and   *)
(* the class WhatsAppChatReader (construction by __read_messages, the       *)
(* queries and the two mutations).                                          *)
(*                                                                          *)
(* A Python str is a sequence of characters; a character is a one-letter    *)
(* string, except the two directionality marks, written LRM and RLM.        *)
(* Optional[str] is a sequence too, with None the sentinel below, which no  *)
(* input contains.  An Optional[dict] is a sequence of length 0 (None) or 1.*)
(***************************************************************************)
EXTENDS Integers, Sequences, FiniteSets, TLC

VARIABLES file, pos, current_message, chat, pc, ret, mut, nmut, line, parsed, reparsed

vars == <<file, pos, current_message, chat, pc, ret, mut, nmut, line, parsed, reparsed>>

\* ------------------------------------------------------------ characters

LRM == "LRM"
RLM == "RLM"
NL == "\n"
TAB == "\t"
None == <<"None">>

\* re: \d
IsDigit(c) == c \in {"0", "1", "2", "3", "4", "5", "6", "7", "8", "9"}

\* str.isspace, as str.strip() uses it
IsSpace(c) == c \in {" ", TAB, NL}

\* Truth value of an Optional[str]: None and '' are false
Truthy(v) == v # None /\ v # <<>>

MinOf(S) == CHOOSE x \in S : \A y \in S : x <= y
MaxOf(S) == CHOOSE x \in S : \A y \in S : x >= y

\* str.strip()
strip(s) ==
    LET idx == {i \in 1..Len(s) : ~IsSpace(s[i])}
    IN IF idx = {} THEN <<>> ELSE SubSeq(s, MinOf(idx), MaxOf(idx))

\* re.sub(r'[\u200e\u200f]', '', line)
IsMark(c) == c \in {LRM, RLM}

remove_marks(s) == SelectSeq(s, LAMBDA c : ~IsMark(c))

\* `filter_str in field` on two str values
IsSubstring(f, s) ==
    \E i \in 0..(Len(s) - Len(f)) : SubSeq(s, i + 1, i + Len(f)) = f

\* ------------------------------------------------------------ split_chat_line

\* ^\[(\d{2}\.\d{2}\.\d{2}), (\d{2}:\d{2}:\d{2})] : the 21 characters before the sender
StampLen == 21

StampMatches(l) ==
    /\ Len(l) >= StampLen
    /\ l[1] = "["
    /\ \A i \in {2, 3, 5, 6, 8, 9, 12, 13, 15, 16, 18, 19} : IsDigit(l[i])
    /\ l[4] = "." /\ l[7] = "."
    /\ l[10] = "," /\ l[11] = " "
    /\ l[14] = ":" /\ l[17] = ":"
    /\ l[20] = "]" /\ l[21] = " "

\* ([^:]+): ends before the first colon after the stamp
Colons(l) == {i \in (StampLen + 1)..Len(l) : l[i] = ":"}

\* (.+)$ : what is left after ': ', without one final line break
MessageGroup(l) ==
    LET rest == SubSeq(l, MinOf(Colons(l)) + 2, Len(l))
    IN IF rest # <<>> /\ rest[Len(rest)] = NL
       THEN SubSeq(rest, 1, Len(rest) - 1)
       ELSE rest

PatternMatches(l) ==
    /\ StampMatches(l)
    /\ Colons(l) # {}
    /\ MinOf(Colons(l)) >= StampLen + 2
    /\ MinOf(Colons(l)) + 1 <= Len(l)
    /\ l[MinOf(Colons(l)) + 1] = " "
    /\ MessageGroup(l) # <<>>
    /\ \A i \in 1..Len(MessageGroup(l)) : MessageGroup(l)[i] # NL

NoMatch == [Date |-> None, Time |-> None, Person |-> None, Message |-> None]

split_chat_line(raw) ==
    LET l == remove_marks(raw)
    IN IF PatternMatches(l)
       THEN [Date |-> SubSeq(l, 2, 9),
             Time |-> SubSeq(l, 12, 19),
             Person |-> SubSeq(l, StampLen + 1, MinOf(Colons(l)) - 1),
             Message |-> strip(MessageGroup(l))]
       ELSE NoMatch

\* ------------------------------------------------------------ inputs

MaxLines == 3
MaxMutations == 2

Date1 == <<"0", "1", ".", "0", "1", ".", "2", "3">>
Date2 == <<"0", "2", ".", "0", "1", ".", "2", "3">>
Time1 == <<"1", "0", ":", "0", "0", ":", "0", "0">>
Time2 == <<"1", "0", ":", "0", "0", ":", "0", "5">>

\* The text `[Date, Time] Person: Message`
HeaderText(d, t, p, m) ==
    <<"[">> \o d \o <<",", " ">> \o t \o <<"]", " ">> \o p \o <<":", " ">> \o m

\* Lines of an export, each without its line terminator (strip() removes it)
HdrA == HeaderText(Date1, Time1, <<"A">>, <<"h", "i">>)
HdrAb == <<LRM>> \o HeaderText(Date2, Time2, <<"A", "b">>, <<"H", "i", " ">>)
HdrBlankMsg == HeaderText(Date1, Time2, <<"A">>, <<" ", LRM>>)
ContPlain == <<" ", "y", "o">>
ContMark == <<LRM, "[", "x", "]">>
BlankLine == <<" ">>

FileLines == {HdrA, HdrAb, HdrBlankMsg, ContPlain, ContMark, BlankLine}

SeqsUpTo(S, n) == UNION {[1..k -> S] : k \in 0..n}

Files == SeqsUpTo(FileLines, MaxLines)

\* Names passed to remove_person and rename_person; no file has a sender B
PersonArgs == {<<"A">>, <<"A", "b">>, <<"B">>}

\* Lists passed to get_filtered_chat
FilterLists ==
    {<<>>, << <<>> >>, << <<"A">> >>, << <<"A", "b">> >>, << <<"B">> >>,
     << <<"h">>, <<"A">> >>, << <<"B">>, <<"2", ".">> >>}

ByValues == {"Person", "Date", "Message"}

\* Arguments of a direct call of split_chat_line
RawLines ==
    {pre \o stamp \o sender \o sep \o msg \o suf :
        pre \in {<<>>, <<LRM>>, <<" ">>},
        stamp \in {<<"[">> \o Date1 \o <<",", " ">> \o Time1 \o <<"]", " ">>,
                   <<"[">> \o Date1 \o <<",">> \o Time1 \o <<"]", " ">>,
                   <<"[">> \o <<"0", "1", ".", "0", "x", ".", "2", "3">>
                          \o <<",", " ">> \o Time1 \o <<"]", " ">>},
        sender \in {<<"A">>, <<>>, <<"A", " ">>, <<"A", NL, "b">>},
        sep \in {<<":", " ">>, <<":">>, <<" ">>},
        msg \in {<<"h", "i">>, <<" ">>, <<>>, <<"a", ":", " ", "b">>,
                 <<" ", "h", "i">>, <<"h", NL, "i">>},
        suf \in {<<>>, <<" ">>, <<NL>>, <<RLM>>}}

\* ------------------------------------------------------------ __read_messages

\* read_step with the continuation line joined on without the line break
read_step_unbroken(cm, ch, raw) ==
    LET l == strip(raw)
        chat_line == split_chat_line(l)
    IN IF l = <<>>
       THEN [current_message |-> cm, chat |-> ch]
       ELSE IF Truthy(chat_line.Date)
       THEN [current_message |-> <<chat_line>>,
             chat |-> IF cm # <<>> THEN Append(ch, cm[1]) ELSE ch]
       ELSE IF cm # <<>>
       THEN [current_message |-> <<[cm[1] EXCEPT !.Message = @ \o l]>>,
             chat |-> ch]
       ELSE [current_message |-> cm, chat |-> ch]

\* One iteration of `for line in file` (lines 72-82)
read_step(cm, ch, raw) ==
    LET l == strip(raw)
        chat_line == split_chat_line(l)
    IN IF l = <<>>
       THEN [current_message |-> cm, chat |-> ch]
       ELSE IF Truthy(chat_line.Date)
       THEN [current_message |-> <<chat_line>>,
             chat |-> IF cm # <<>> THEN Append(ch, cm[1]) ELSE ch]
       ELSE IF cm # <<>>
       THEN [current_message |->
                 <<[cm[1] EXCEPT !.Message = @ \o <<NL>> \o l]>>,
             chat |-> ch]
       ELSE [current_message |-> cm, chat |-> ch]

\* commit_last without the append: the entry in progress at the end is lost
commit_last_dropped(cm, ch) == ch

\* After the loop (lines 84-85)
commit_last(cm, ch) == IF cm # <<>> THEN Append(ch, cm[1]) ELSE ch

RECURSIVE read_loop(_, _, _, _)
read_loop(cm, ch, f, i) ==
    IF i > Len(f)
    THEN commit_last(cm, ch)
    ELSE LET r == read_step(cm, ch, f[i])
         IN read_loop(r.current_message, r.chat, f, i + 1)

\* The whole of __read_messages on a file
read_messages(f) == read_loop(<<>>, <<>>, f, 1)

\* ------------------------------------------------------------ queries and mutations

get_persons(ch) == {ch[i].Person : i \in {j \in 1..Len(ch) : Truthy(ch[j].Person)}}

get_messages(ch) ==
    LET kept == SelectSeq(ch, LAMBDA e : Truthy(e.Message))
    IN [i \in 1..Len(kept) |-> kept[i].Message]

\* remove_person matching a part of the name instead of the whole name
remove_person_part(ch, person) ==
    SelectSeq(ch, LAMBDA e : ~IsSubstring(person, e.Person))

remove_person(ch, person) == SelectSeq(ch, LAMBDA e : e.Person # person)

\* rename_person stopping after the first entry it renames
rename_person_first(ch, person, new_name) ==
    [i \in 1..Len(ch) |->
        IF ch[i].Person = person /\ \A j \in 1..(i - 1) : ch[j].Person # person
        THEN [ch[i] EXCEPT !.Person = new_name]
        ELSE ch[i]]

\* rename_person matching a part of the name instead of the whole name
rename_person_part(ch, person, new_name) ==
    [i \in 1..Len(ch) |->
        IF IsSubstring(person, ch[i].Person)
        THEN [ch[i] EXCEPT !.Person = new_name]
        ELSE ch[i]]

rename_person(ch, person, new_name) ==
    [i \in 1..Len(ch) |->
        IF ch[i].Person = person THEN [ch[i] EXCEPT !.Person = new_name] ELSE ch[i]]

\* any_in with all() in place of any()
all_in(filters, field) ==
    \A k \in 1..Len(filters) : IsSubstring(filters[k], field)

\* any(filter_str in entry[by] for filter_str in filters)
any_in(filters, field) ==
    \E k \in 1..Len(filters) : IsSubstring(filters[k], field)

\* `filter_str in None` raises TypeError; it is evaluated when filters is not empty
filter_raises(ch, filters, by) ==
    /\ filters # <<>>
    /\ \E i \in 1..Len(ch) : ch[i][by] = None

get_filtered_chat(ch, filters, by) ==
    SelectSeq(ch, LAMBDA e : any_in(filters, e[by]))

\* ------------------------------------------------------------ the state machine

NoCall == [op |-> "none", args |-> <<>>, val |-> <<>>, exc |-> "none", pre |-> <<>>]

Returned(op, args, val, pre) ==
    [op |-> op, args |-> args, val |-> val, exc |-> "none", pre |-> pre]

Raised(op, args, exc, pre) ==
    [op |-> op, args |-> args, val |-> <<>>, exc |-> exc, pre |-> pre]

\* WhatsAppChatReader(path): the file is some export; __chat = []
Init ==
    /\ file \in Files
    /\ pos = 1
    /\ current_message = <<>>
    /\ chat = <<>>
    /\ pc = "reading"
    /\ ret = NoCall
    /\ mut = NoCall
    /\ nmut = 0
    /\ line = <<>>
    /\ parsed = NoMatch
    /\ reparsed = NoMatch

ReadLine ==
    /\ pc = "reading"
    /\ pos <= Len(file)
    /\ LET r == read_step(current_message, chat, file[pos])
       IN /\ current_message' = r.current_message
          /\ chat' = r.chat
    /\ pos' = pos + 1
    /\ UNCHANGED <<file, pc, ret, mut, nmut, line, parsed, reparsed>>

CommitLast ==
    /\ pc = "reading"
    /\ pos > Len(file)
    /\ chat' = commit_last(current_message, chat)
    /\ pc' = "loaded"
    /\ UNCHANGED <<file, pos, current_message, ret, mut, nmut, line, parsed, reparsed>>

\* The with block closes the file and __init__ returns
Close ==
    /\ pc = "loaded"
    /\ pc' = "ready"
    /\ file' = <<>>
    /\ pos' = 0
    /\ current_message' = <<>>
    /\ UNCHANGED <<chat, ret, mut, nmut, line, parsed, reparsed>>

\* A query returns val (or raises) to its caller and leaves the store alone
Query(r) ==
    /\ pc = "ready"
    /\ ret' = r
    /\ pc' = "returned"
    /\ UNCHANGED <<file, pos, current_message, chat, mut, nmut, line, parsed, reparsed>>

GetChat == Query(Returned("get_chat", <<>>, chat, chat))

GetChatLen == Query(Returned("get_chat_len", <<>>, Len(chat), chat))

GetPersons == Query(Returned("get_persons", <<>>, get_persons(chat), chat))

GetMessages == Query(Returned("get_messages", <<>>, get_messages(chat), chat))

GetFilteredChat ==
    \E filters \in FilterLists, by \in ByValues :
        Query(IF filter_raises(chat, filters, by)
              THEN Raised("get_filtered_chat", <<filters, by>>, "TypeError", chat)
              ELSE Returned("get_filtered_chat", <<filters, by>>,
                            get_filtered_chat(chat, filters, by), chat))

\* The caller goes on after a query
Resume ==
    /\ pc = "returned"
    /\ pc' = "ready"
    /\ ret' = NoCall
    /\ UNCHANGED <<file, pos, current_message, chat, mut, nmut, line, parsed, reparsed>>

\* mut records the last mutating call and the store it was applied to
Mutation(op, args, new) ==
    /\ pc = "ready"
    /\ nmut < MaxMutations
    /\ chat' = new
    /\ mut' = Returned(op, args, <<>>, chat)
    /\ nmut' = nmut + 1
    /\ UNCHANGED <<file, pos, current_message, pc, ret, line, parsed, reparsed>>

RemovePerson ==
    \E person \in PersonArgs :
        Mutation("remove_person", <<person>>, remove_person(chat, person))

RenamePerson ==
    \E person \in PersonArgs, new_name \in PersonArgs :
        Mutation("rename_person", <<person, new_name>>,
                 rename_person(chat, person, new_name))

\* A caller that passes None where the signature says str
RenamePersonNone ==
    \E person \in PersonArgs :
        Mutation("rename_person", <<person, None>>, rename_person(chat, person, None))

Next ==
    \/ ReadLine
    \/ CommitLast
    \/ Close
    \/ GetChat
    \/ GetChatLen
    \/ GetPersons
    \/ GetMessages
    \/ GetFilteredChat
    \/ Resume
    \/ RemovePerson
    \/ RenamePerson

Spec == Init /\ [][Next]_vars

NextUntyped == Next \/ RenamePersonNone

SpecUntyped == Init /\ [][NextUntyped]_vars

\* ------------------------------------------------------------ split_chat_line, called directly

InitParse ==
    /\ line \in RawLines
    /\ parsed = NoMatch
    /\ reparsed = NoMatch
    /\ pc = "call"
    /\ file = <<>>
    /\ pos = 0
    /\ current_message = <<>>
    /\ chat = <<>>
    /\ ret = NoCall
    /\ mut = NoCall
    /\ nmut = 0

SplitChatLine ==
    /\ pc = "call"
    /\ parsed' = split_chat_line(line)
    /\ pc' = "returned"
    /\ UNCHANGED <<file, pos, current_message, chat, ret, mut, nmut, line, reparsed>>

\* The returned record written back as a line and split again
SplitAgain ==
    /\ pc = "returned"
    /\ parsed.Date # None
    /\ reparsed' = split_chat_line(
            HeaderText(parsed.Date, parsed.Time, parsed.Person, parsed.Message))
    /\ pc' = "reparsed"
    /\ UNCHANGED <<file, pos, current_message, chat, ret, mut, nmut, line, parsed>>

NextParse == SplitChatLine \/ SplitAgain

SpecParse == InitParse /\ [][NextParse]_vars

\* ------------------------------------------------------------ properties

\* The k-th smallest element of a set of numbers
Nth(S, k) == CHOOSE x \in S : Cardinality({y \in S : y <= x}) = k

\* The elements of sequence s at the indices in S, in increasing order
Pick(s, S) == [k \in 1..Cardinality(S) |-> s[Nth(S, k)]]

\* s has f as a contiguous part
Contains(s, f) ==
    \E a \in 0..Len(s) : \E b \in a..Len(s) : SubSeq(s, a + 1, b) = f

\* Indices of the file's header lines: the lines that, trimmed, match the pattern
Headers == {i \in 1..Len(file) : PatternMatches(remove_marks(strip(file[i])))}

NextHeader(h) ==
    IF \E j \in Headers : j > h
    THEN MinOf({j \in Headers : j > h})
    ELSE Len(file) + 1

\* The non-blank lines after header h and before the next header
ContLines(h) == {i \in (h + 1)..(NextHeader(h) - 1) : strip(file[i]) # <<>>}

RECURSIVE Joined(_, _)
Joined(S, k) ==
    IF k > Cardinality(S)
    THEN <<>>
    ELSE <<NL>> \o strip(file[Nth(S, k)]) \o Joined(S, k + 1)

Rank(h) == Cardinality({j \in Headers : j <= h})

\* C1: once the file is read, each header line with its N continuation lines
\* has one entry, at the header's rank, whose Message is the header's trimmed
\* message followed by each trimmed continuation line preceded by a newline,
\* and whose Date, Time and Person are the header's.
C1_MultiLineEntry ==
    pc = "loaded" =>
        \A h \in Headers :
            LET hdr == split_chat_line(strip(file[h]))
            IN /\ Rank(h) <= Len(chat)
               /\ chat[Rank(h)].Date = hdr.Date
               /\ chat[Rank(h)].Time = hdr.Time
               /\ chat[Rank(h)].Person = hdr.Person
               /\ chat[Rank(h)].Message = hdr.Message \o Joined(ContLines(h), 1)

\* C1 witness: a header with two continuation lines has been read
C1_Witness ==
    /\ pc = "loaded"
    /\ \E h \in Headers :
        /\ Cardinality(ContLines(h)) >= 2
        /\ Len(chat[Rank(h)].Message) > Len(split_chat_line(strip(file[h])).Message)

\* C2: once the file is read, the store holds one entry per header line, in
\* file order; the last header's entry is there once, and lines before the
\* first header give no entry.
C2_OneEntryPerHeader ==
    pc = "loaded" =>
        /\ Len(chat) = Cardinality(Headers)
        /\ \A k \in 1..Len(chat) :
            LET hdr == split_chat_line(strip(file[Nth(Headers, k)]))
            IN /\ chat[k].Date = hdr.Date
               /\ chat[k].Time = hdr.Time
               /\ chat[k].Person = hdr.Person

\* C2 witness: a file that starts with a non-header line and ends right after
\* its second header line
C2_Witness ==
    /\ pc = "loaded"
    /\ Len(file) = 3
    /\ Headers = {2, 3}
    /\ strip(file[1]) # <<>>
    /\ Len(chat) = 2

\* C3: after remove_person(name), get_persons() does not include name, the
\* count went down by the number of entries whose Person was name, the rest
\* are the other entries in their order, and removing again changes nothing.
C3_RemovePerson ==
    mut.op = "remove_person" =>
        LET name == mut.args[1]
            kept == {i \in 1..Len(mut.pre) : mut.pre[i].Person # name}
            gone == {i \in 1..Len(mut.pre) : mut.pre[i].Person = name}
        IN /\ name \notin get_persons(chat)
           /\ (ret.op = "get_persons" => name \notin ret.val)
           /\ Len(chat) = Len(mut.pre) - Cardinality(gone)
           /\ chat = Pick(mut.pre, kept)
           /\ remove_person(chat, name) = chat

\* C3 witness: get_persons() called after a removal that took some entries
\* and left others
C3_Witness ==
    /\ mut.op = "remove_person"
    /\ ret.op = "get_persons"
    /\ Len(chat) > 0
    /\ Len(chat) < Len(mut.pre)

\* Indices of the entries whose Person was old before the last rename
RenamedIdx == {i \in 1..Len(mut.pre) : mut.pre[i].Person = mut.args[1]}

\* Entries not named old whose Person had new as a part before the rename
OthersWithNew ==
    {i \in 1..Len(mut.pre) :
        /\ mut.pre[i].Person # mut.args[1]
        /\ Contains(mut.pre[i].Person, mut.args[2])}

FilterAfterRename ==
    /\ mut.op = "rename_person"
    /\ ret.op = "get_filtered_chat"
    /\ ret.args = << <<mut.args[2]>>, "Person" >>

\* C4 as stated: rename_person(old, new) followed by
\* get_filtered_chat([new], By.Person) returns exactly the entries whose
\* Person was old before the rename, in their order.
C4_Original ==
    FilterAfterRename => ret.val = Pick(chat, RenamedIdx)

\* C4 amended: the same, when no entry with another Person had new as a part
\* of its Person before the rename.
C4_FilterAfterRename ==
    (FilterAfterRename /\ OthersWithNew = {}) => ret.val = Pick(chat, RenamedIdx)

\* C4 witness: the filter returned the renamed entries and left others out
C4_Witness ==
    /\ FilterAfterRename
    /\ OthersWithNew = {}
    /\ mut.args[1] # mut.args[2]
    /\ Len(ret.val) >= 1
    /\ Len(ret.val) < Len(chat)

\* C5: rename_person(old, new) keeps the count, the order, every Date, Time
\* and Message and the Person of every entry not named old, and sets the
\* Person of the entries named old to new; with no entry named old the store
\* is the same as before.
C5_RenameFrame ==
    mut.op = "rename_person" =>
        /\ Len(chat) = Len(mut.pre)
        /\ \A i \in 1..Len(chat) :
            /\ chat[i].Date = mut.pre[i].Date
            /\ chat[i].Time = mut.pre[i].Time
            /\ chat[i].Message = mut.pre[i].Message
            /\ chat[i].Person =
                 IF i \in RenamedIdx THEN mut.args[2] ELSE mut.pre[i].Person
        /\ (RenamedIdx = {} => chat = mut.pre)

\* C5 witness: a rename that changed some entries and had others to leave alone
C5_Witness ==
    /\ mut.op = "rename_person"
    /\ mut.args[1] # mut.args[2]
    /\ RenamedIdx # {}
    /\ Cardinality(RenamedIdx) < Len(chat)

\* C6 as stated: every stored entry has Date, Time, Person and Message
\* present and not empty.
C6_AllPopulated ==
    \A i \in 1..Len(chat) :
        /\ Truthy(chat[i].Date)
        /\ Truthy(chat[i].Time)
        /\ Truthy(chat[i].Person)
        /\ Truthy(chat[i].Message)

\* C7 as stated: no query raises, and get_filtered_chat takes an entry whose
\* selected field is absent as not matching.
C7_NeverRaises ==
    /\ ret.exc = "none"
    /\ ret.op = "get_filtered_chat" =>
         ret.val = Pick(chat, {i \in 1..Len(chat) :
                                 /\ chat[i][ret.args[2]] # None
                                 /\ \E k \in 1..Len(ret.args[1]) :
                                      Contains(chat[i][ret.args[2]], ret.args[1][k])})

\* Every mark of the line is next to a bracket
MarksByBrackets(l) ==
    \A i \in 1..Len(l) :
        IsMark(l[i]) =>
            \/ (i > 1 /\ l[i - 1] \in {"[", "]"})
            \/ (i < Len(l) /\ l[i + 1] \in {"[", "]"})

\* C8 as stated: a file whose marks are next to brackets gives the same
\* entries as the same file with the marks removed.
C8_MarksDoNotMatter ==
    (pc = "loaded" /\ \A i \in 1..Len(file) : MarksByBrackets(file[i])) =>
        chat = read_messages([i \in 1..Len(file) |-> remove_marks(file[i])])

\* C9 as stated: a line that matches gives four present fields, and the line
\* written back from them gives the same four fields; a line that does not
\* match gives four absent fields.
C9_RoundTrip ==
    /\ pc \in {"returned", "reparsed"} =>
         IF PatternMatches(remove_marks(line))
         THEN /\ parsed.Date # None
              /\ parsed.Time # None
              /\ parsed.Person # None
              /\ parsed.Message # None
         ELSE parsed = NoMatch
    /\ pc = "reparsed" => reparsed = parsed

\* C10: get_filtered_chat(filters, by) returns exactly the entries whose
\* selected field has one of the filter strings as a part, in store order
\* (none when filters is empty), and leaves the store as it was.
C10_FilteredChat ==
    ret.op = "get_filtered_chat" =>
        LET filters == ret.args[1]
            by == ret.args[2]
            hits == {i \in 1..Len(ret.pre) :
                        \E k \in 1..Len(filters) : Contains(ret.pre[i][by], filters[k])}
        IN /\ ret.exc = "none"
           /\ ret.val = Pick(ret.pre, hits)
           /\ (filters = <<>> => ret.val = <<>>)
           /\ chat = ret.pre

\* C10 witness: two filter strings, one matching an entry the other does not,
\* and an entry that neither matches
C10_Witness ==
    /\ ret.op = "get_filtered_chat"
    /\ Len(ret.args[1]) = 2
    /\ Len(ret.val) >= 1
    /\ Len(ret.val) < Len(chat)
    /\ \E i \in 1..Len(ret.val) :
         ~Contains(ret.val[i][ret.args[2]], ret.args[1][1])

====
